---- MODULE Spec2Model ----
(***************************************************************************)
(* Model of scripts/firefox_stats.py: extract_string_list builds, per      *)
(* file, the list of source string identifiers and, per locale, the list   *)
(* of identifiers that also exist in source; main aggregates the lists     *)
(* into a completion percentage per locale.                                *)
(*                                                                         *)
(* Strings that the code concatenates (entity keys, attribute names) are   *)
(* sequences of characters, so f"{entity}.{attribute}" is concatenation.   *)
(* The file system, the project configuration and the parsers are the      *)
(* environment: what they return is chosen when the code reads them.       *)
(***************************************************************************)
EXTENDS Integers, Sequences, FiniteSets, TLC

\* Largest number of entities a parser yields for one file.
MaxEntities == 2

VARIABLES
    pc,            \* position in main / extract_string_list
    exc,           \* the exception that ended the run, "none" while running
    locales,       \* extract_string_list: locales
    files,         \* extract_string_list: files (paths.ProjectFiles)
    si,            \* index of the next element of files in the source loop
    string_list,   \* extract_string_list: string_list
    keys,          \* insertion order of string_list (dict iteration order)
    srcContent,    \* what the parser yielded for each source file read
    li,            \* index of the current locale in the locale loop
    fi,            \* index of the next file (in keys) in the inner loop
    copies,        \* locales whose files read so far equal the source files
    stdout,        \* the diagnostics printed so far
    source_stats,  \* main: source_stats
    completion,    \* main: completion
    output         \* content of the JSON file written, NoOutput before

vars == <<pc, exc, locales, files, si, string_list, keys, srcContent, li, fi,
          copies, stdout, source_stats, completion, output>>

----------------------------------------------------------------------------
\* Environment: locale codes, project files, parser results.

SourceLocale == "en-US"
SourceKey == "source"

\* Codes that may appear in shipped-locales, in ascending string order.
LocaleCodes == <<"de", "en-US", "source">>

LocaleSet == {LocaleCodes[i] : i \in 1..Len(LocaleCodes)}

Rank(code) == CHOOSE i \in 1..Len(LocaleCodes) : LocaleCodes[i] = code

\* Sequences without repetition over a set.
Perms(S) == {s \in [1..Cardinality(S) -> S] : \A i, j \in 1..Cardinality(S) : s[i] = s[j] => i = j}

\* Possible contents of shipped-locales (splitlines), one code per line.
ShippedLocales == UNION {Perms(S) : S \in SUBSET LocaleSet}

FtlFile == "browser/locales/en-US/browser/a.ftl"
PropertiesFile == "browser/locales/en-US/chrome/b.properties"
HiddenFile == "browser/locales/en-US/browser/.DS_Store"

\* os.path.basename(file_name).startswith(".")
IsHidden(file_name) == file_name = HiddenFile

\* os.path.splitext(file_name)[1]
Extension(file_name) ==
    IF file_name = FtlFile THEN ".ftl"
    ELSE IF file_name = PropertiesFile THEN ".properties"
    ELSE ""

\* What paths.ProjectFiles may enumerate.
Manifests == {<<>>, <<FtlFile>>, <<PropertiesFile, HiddenFile>>, <<FtlFile, HiddenFile, PropertiesFile>>}

Key_a == <<"a">>
Attr_x == <<"x">>

Entity(key, attributes) == [key |-> key, attributes |-> attributes, junk |-> FALSE]
Junk == [key |-> <<>>, attributes |-> <<>>, junk |-> TRUE]

\* What a parser can yield, by file extension (only Fluent has attributes;
\* unparsable content is taken from the Fluent parser only).
Items(ext) ==
    IF ext = ".ftl"
    THEN {Entity(Key_a, <<>>), Entity(Key_a, <<Attr_x>>), Junk}
    ELSE {Entity(Key_a, <<>>)}

SeqsUpTo(S, n) == UNION {[1..k -> S] : k \in 0..n}

\* A parse: the entities yielded, then possibly an exception.
Contents(ext) ==
    {c \in [entities : SeqsUpTo(Items(ext), MaxEntities), raises : BOOLEAN] :
        c.raises => Len(c.entities) < MaxEntities}

NoOutput == "none"

----------------------------------------------------------------------------
\* Pure parts of the code.

\* list.remove(x): removes the first occurrence.
RECURSIVE Remove(_, _)
Remove(s, x) ==
    IF s = <<>> THEN <<>>
    ELSE IF Head(s) = x THEN Tail(s)
    ELSE <<Head(s)>> \o Remove(Tail(s), x)

RECURSIVE Insert(_, _)
Insert(s, x) ==
    IF s = <<>> THEN <<x>>
    ELSE IF Rank(x) <= Rank(Head(s)) THEN <<x>> \o s
    ELSE <<Head(s)>> \o Insert(Tail(s), x)

\* list.sort()
RECURSIVE Sort(_)
Sort(s) == IF s = <<>> THEN <<>> ELSE Insert(Sort(Tail(s)), Head(s))

Elems(s) == {s[i] : i \in 1..Len(s)}

\* f"{entity}.{attribute}"
AttrStringId(entity, attribute) == entity.key \o <<".">> \o attribute

\* The identifiers one entity stands for: its key, then its attributes (.ftl).
EntityIds(entity, ext) ==
    IF entity.junk THEN <<>>
    ELSE <<entity.key>> \o
         (IF ext = ".ftl"
          THEN [i \in 1..Len(entity.attributes) |-> AttrStringId(entity, entity.attributes[i])]
          ELSE <<>>)

\* Source loop body: every identifier of every entity is appended.
RECURSIVE SourceIds(_, _)
SourceIds(entities, ext) ==
    IF entities = <<>> THEN <<>>
    ELSE EntityIds(Head(entities), ext) \o SourceIds(Tail(entities), ext)

\* if entity_id in string_list[file_name]["source"]
InSource(id, source) == id \in Elems(source)

\* MatchedIds without lines 98-103: the attributes of a locale's entity are
\* not looked at.
RECURSIVE MatchedIds_NoAttributes(_, _, _)
MatchedIds_NoAttributes(entities, ext, source) ==
    IF entities = <<>> THEN <<>>
    ELSE SelectSeq(EntityIds(Head(entities), ""), LAMBDA id : InSource(id, source))
         \o MatchedIds_NoAttributes(Tail(entities), ext, source)

\* Locale loop body: an identifier is appended when it exists in source.
RECURSIVE MatchedIds(_, _, _)
MatchedIds(entities, ext, source) ==
    IF entities = <<>> THEN <<>>
    ELSE SelectSeq(EntityIds(Head(entities), ext), LAMBDA id : InSource(id, source))
         \o MatchedIds(Tail(entities), ext, source)

\* {}
EmptyDict == [k \in {} |-> <<>>]

\* d[k] = v
Store(d, k, v) == [x \in DOMAIN d \cup {k} |-> IF x = k THEN v ELSE d[x]]

\* d.pop(k)
Pop(d, k) == [x \in DOMAIN d \ {k} |-> d[x]]

\* print(...) of a diagnostic
Diagnostic(kind, locale, file_name) == [kind |-> kind, locale |-> locale, file |-> file_name]

\* ParseSource with a handler that only prints: the file stays in string_list
\* with the identifiers appended before the exception.
ParseSource_KeepsFailed(sl, ks, file_name, content) ==
    [string_list |-> Store(sl, file_name,
                           Store(EmptyDict, SourceKey,
                                 SourceIds(content.entities, Extension(file_name)))),
     keys |-> IF file_name \in Elems(ks) THEN ks ELSE Append(ks, file_name)]

\* Lines 50-72 for one file: string_list and its key order after the parser
\* yielded content.entities and then, if content.raises, raised.
ParseSource(sl, ks, file_name, content) ==
    IF content.raises
    THEN [string_list |-> Pop(sl, file_name),
          keys |-> SelectSeq(ks, LAMBDA k : k # file_name)]
    ELSE [string_list |-> Store(sl, file_name,
                                Store(EmptyDict, SourceKey,
                                      SourceIds(content.entities, Extension(file_name)))),
          keys |-> IF file_name \in Elems(ks) THEN ks ELSE Append(ks, file_name)]

\* MissingFile falling back to the source strings for a file without translation.
MissingFile_FallsBackToSource(values, locale) == Store(values, locale, values[SourceKey])

\* Lines 76-83: string_list[file_name] when the locale file does not exist.
MissingFile(values, locale) == Store(values, locale, <<>>)

\* Lines 76-108: string_list[file_name] after the locale file was parsed; the
\* handler of line 104 only prints.
ParseLocale(values, locale, ext, content) ==
    LET reset == Store(values, locale, <<>>)
    IN  Store(reset, locale, MatchedIds(content.entities, ext, reset[SourceKey]))

\* values.get(key, [])
Get(values, key) == IF key \in DOMAIN values THEN values[key] ELSE <<>>

\* sum(len(values.get(key, [])) for values in string_list.values())
RECURSIVE SumLen(_, _, _)
SumLen(sl, ks, key) ==
    IF ks = <<>> THEN 0
    ELSE Len(Get(sl[Head(ks)], key)) + SumLen(sl, Tail(ks), key)

\* round((n / d) * 100): Python 3 rounds halves to the even neighbour.
\* Exact for the totals below 40 that the model reaches.
Round(n, d) ==
    LET q == (100 * n) \div d
        r == (100 * n) % d
    IN  IF 2 * r < d THEN q
        ELSE IF 2 * r > d THEN q + 1
        ELSE IF q % 2 = 0 THEN q ELSE q + 1

\* The locales the aggregation loop gives an entry.
Reported(ls) == SelectSeq(ls, LAMBDA l : l # SourceKey)

\* Completion that gives no entry to a locale without any match.
Completion_SkipsEmpty(sl, ks, ls, total) ==
    [l \in {x \in Elems(Reported(ls)) : SumLen(sl, ks, x) > 0} |-> Round(SumLen(sl, ks, l), total)]

\* The completion dictionary built by the loop of main.
Completion(sl, ks, ls, total) ==
    [l \in Elems(Reported(ls)) |-> Round(SumLen(sl, ks, l), total)]

----------------------------------------------------------------------------
Init ==
    /\ pc = "config"
    /\ exc = "none"
    /\ locales = <<>>
    /\ files = <<>>
    /\ si = 1
    /\ string_list = EmptyDict
    /\ keys = <<>>
    /\ srcContent = EmptyDict
    /\ li = 1
    /\ fi = 1
    /\ copies = {}
    /\ stdout = <<>>
    /\ source_stats = 0
    /\ completion = EmptyDict
    /\ output = NoOutput

\* Lines 27-29: the project configuration must exist.
CheckConfig ==
    /\ pc = "config"
    /\ \E exists \in BOOLEAN :
          IF exists
          THEN pc' = "locales" /\ exc' = exc
          ELSE pc' = "exit" /\ exc' = "SystemExit"
    /\ UNCHANGED <<locales, files, si, string_list, keys, srcContent, li, fi,
                   copies, stdout, source_stats, completion, output>>

\* Lines 31-44: read shipped-locales, drop en-US, sort; enumerate the files.
ReadLocales ==
    /\ pc = "locales"
    /\ \E lines \in ShippedLocales, manifest \in Manifests :
          IF SourceLocale \in Elems(lines)
          THEN /\ locales' = Sort(Remove(lines, SourceLocale))
               /\ copies' = Elems(Remove(lines, SourceLocale))
               /\ files' = manifest
               /\ pc' = "source"
               /\ exc' = exc
          ELSE /\ pc' = "exit"
               /\ exc' = "ValueError"
               /\ UNCHANGED <<locales, copies, files>>
    /\ UNCHANGED <<si, string_list, keys, srcContent, li, fi, stdout,
                   source_stats, completion, output>>

\* Lines 45-72: one iteration of the loop over the project's files.
SourceFile ==
    /\ pc = "source"
    /\ si <= Len(files)
    /\ si' = si + 1
    /\ LET file_name == files[si]
       IN  IF IsHidden(file_name)
           THEN UNCHANGED <<string_list, keys, srcContent, stdout>>
           ELSE \E content \in Contents(Extension(file_name)) :
                   LET after == ParseSource(string_list, keys, file_name, content)
                   IN  /\ string_list' = after.string_list
                       /\ keys' = after.keys
                       /\ srcContent' = Store(srcContent, file_name, content)
                       /\ stdout' = IF content.raises
                                    THEN Append(stdout, Diagnostic("source_error", "", file_name))
                                    ELSE stdout
    /\ UNCHANGED <<pc, exc, locales, files, li, fi, copies, source_stats,
                   completion, output>>

\* The loop of line 45 is exhausted.
EndSource ==
    /\ pc = "source"
    /\ si > Len(files)
    /\ pc' = "locale"
    /\ UNCHANGED <<exc, locales, files, si, string_list, keys, srcContent, li,
                   fi, copies, stdout, source_stats, completion, output>>

\* Lines 75-108: one iteration of the inner loop, for locales[li] and keys[fi].
LocaleFile ==
    /\ pc = "locale"
    /\ li <= Len(locales)
    /\ fi <= Len(keys)
    /\ fi' = fi + 1
    /\ LET locale == locales[li]
           file_name == keys[fi]
       IN  \E exists \in BOOLEAN :
              IF ~exists
              THEN /\ string_list' = [string_list EXCEPT ![file_name] = MissingFile(@, locale)]
                   /\ stdout' = Append(stdout, Diagnostic("missing", locale, file_name))
                   /\ copies' = copies \ {locale}
              ELSE \E content \in Contents(Extension(file_name)) :
                      /\ string_list' = [string_list EXCEPT ![file_name] =
                                             ParseLocale(@, locale, Extension(file_name), content)]
                      /\ stdout' = IF content.raises
                                   THEN Append(stdout, Diagnostic("l10n_error", locale, file_name))
                                   ELSE stdout
                      /\ copies' = IF content = srcContent[file_name]
                                   THEN copies ELSE copies \ {locale}
    /\ UNCHANGED <<pc, exc, locales, files, si, keys, srcContent, li,
                   source_stats, completion, output>>

\* Line 74: the inner loop is exhausted, take the next locale.
NextLocale ==
    /\ pc = "locale"
    /\ li <= Len(locales)
    /\ fi > Len(keys)
    /\ li' = li + 1
    /\ fi' = 1
    /\ UNCHANGED <<pc, exc, locales, files, si, string_list, keys, srcContent,
                   copies, stdout, source_stats, completion, output>>

\* Line 110: extract_string_list returns.
EndLocales ==
    /\ pc = "locale"
    /\ li > Len(locales)
    /\ pc' = "aggregate"
    /\ UNCHANGED <<exc, locales, files, si, string_list, keys, srcContent, li,
                   fi, copies, stdout, source_stats, completion, output>>

\* Lines 151-160: the totals and the percentage of every locale; the first
\* division by a zero source_stats raises ZeroDivisionError.
Aggregate ==
    /\ pc = "aggregate"
    /\ source_stats' = SumLen(string_list, keys, SourceKey)
    /\ IF source_stats' = 0 /\ Reported(locales) # <<>>
       THEN /\ pc' = "exit"
            /\ exc' = "ZeroDivisionError"
            /\ completion' = completion
       ELSE /\ pc' = "report"
            /\ exc' = exc
            /\ completion' = Completion(string_list, keys, locales, source_stats')
    /\ UNCHANGED <<locales, files, si, string_list, keys, srcContent, li, fi,
                   copies, stdout, output>>

\* Lines 162-167: the percentages are printed and written as JSON.
Report ==
    /\ pc = "report"
    /\ output' = completion
    /\ pc' = "done"
    /\ UNCHANGED <<exc, locales, files, si, string_list, keys, srcContent, li,
                   fi, copies, stdout, source_stats, completion>>

Next ==
    \/ CheckConfig
    \/ ReadLocales
    \/ SourceFile
    \/ EndSource
    \/ LocaleFile
    \/ NextLocale
    \/ EndLocales
    \/ Aggregate
    \/ Report

Spec == Init /\ [][Next]_vars

----------------------------------------------------------------------------
\* Properties.

\* The aggregation of lines 151-160 has run (it completed or it raised).
Aggregated == pc \in {"report", "done"} \/ exc = "ZeroDivisionError"

\* The source lists of string_list, by file.
SourceInventory == [f \in DOMAIN string_list |-> string_list[f][SourceKey]]

HasDiagnostic(kind, locale, file_name) ==
    \E i \in 1..Len(stdout) : stdout[i] = Diagnostic(kind, locale, file_name)

Position(s, x) == CHOOSE i \in 1..Len(s) : s[i] = x

\* C1: every percentage main computes is an integer between 0 and 100.
C1_PercentageInRange ==
    pc = "done" => \A l \in DOMAIN output : output[l] \in 0..100

\* C2: every identifier recorded for a locale under a file is an element of
\* the source list of that file.
C2_RecordedInSource ==
    \A f \in DOMAIN string_list :
        \A k \in DOMAIN string_list[f] \ {SourceKey} :
            Elems(string_list[f][k]) \subseteq Elems(string_list[f][SourceKey])

\* C3: with a source total of zero the aggregation fails with EmptyInventory
\* and nothing is written.
C3_EmptyInventoryError ==
    (Aggregated /\ source_stats = 0) => (exc = "EmptyInventory" /\ output = NoOutput)

RECURSIVE DistinctTotal(_, _)
DistinctTotal(sl, ks) ==
    IF ks = <<>> THEN 0
    ELSE Cardinality(Elems(sl[Head(ks)][SourceKey])) + DistinctTotal(sl, Tail(ks))

\* C4: a file contributes each of its identifiers once to the source total.
C4_SetSemantics ==
    pc \in {"report", "done"} => source_stats = DistinctTotal(string_list, keys)

AllMissing(l) == \A f \in Elems(keys) : HasDiagnostic("missing", l, f)

\* C6: a missing locale file leaves an empty match list for its locale and
\* file, prints one diagnostic for that file, the loop goes on behind it, and
\* a locale without any file gets 0 when the source total is positive.
C6_MissingFileIsZero ==
    /\ \A i \in 1..Len(stdout) :
          stdout[i].kind = "missing" =>
             /\ stdout[i].file \in DOMAIN string_list
             /\ Get(string_list[stdout[i].file], stdout[i].locale) = <<>>
             /\ \A j \in 1..Len(stdout) : stdout[j] = stdout[i] => j = i
             /\ exc \in {"none", "ZeroDivisionError"}
             /\ pc = "locale" =>
                   \/ Position(locales, stdout[i].locale) < li
                   \/ /\ Position(locales, stdout[i].locale) = li
                      /\ Position(keys, stdout[i].file) < fi
    /\ pc = "done" =>
          \A l \in Elems(locales) :
             (AllMissing(l) /\ source_stats > 0) => (l \in DOMAIN output /\ output[l] = 0)

C6_Witness ==
    /\ pc = "done"
    /\ Len(keys) = 2
    /\ "de" \in Elems(locales)
    /\ AllMissing("de")
    /\ Len(stdout) = 2
    /\ source_stats > 0
    /\ output["de"] = 0

\* C7: a locale whose files parse to the same entities as the source files
\* gets 100 when the source total is positive.
C7_IdenticalIsComplete ==
    pc = "done" =>
       \A l \in copies : source_stats > 0 => (l \in DOMAIN output /\ output[l] = 100)

C7_Witness ==
    /\ pc = "done"
    /\ "de" \in copies
    /\ Len(keys) = 2
    /\ source_stats > 2
    /\ output["de"] = 100

\* C8: after an exception in a locale file the match list of its locale and
\* file is empty.
C8_FailedLocaleFileIsZero ==
    \A i \in 1..Len(stdout) :
        stdout[i].kind = "l10n_error" =>
           Get(string_list[stdout[i].file], stdout[i].locale) = <<>>

\* The source files read that did not raise.
Parsed == {f \in DOMAIN srcContent : ~HasDiagnostic("source_error", "", f)}

\* C9: a source file whose parse raised is not in string_list, adds nothing
\* to the source total, is never looked at by the locale loop, and the other
\* files of the project are in string_list when the source loop ends.
C9_FailedSourceExcluded ==
    /\ \A i \in 1..Len(stdout) :
          stdout[i].kind = "source_error" =>
             /\ stdout[i].file \notin DOMAIN string_list
             /\ stdout[i].file \notin Elems(keys)
             /\ \A j \in 1..Len(stdout) :
                   stdout[j].kind \in {"missing", "l10n_error"} => stdout[j].file # stdout[i].file
             /\ exc \in {"none", "ZeroDivisionError"}
    /\ pc \in {"locale", "aggregate", "report", "done"} =>
          /\ DOMAIN srcContent = {f \in Elems(files) : ~IsHidden(f)}
          /\ DOMAIN string_list = Parsed
          /\ Elems(keys) = Parsed
    /\ pc \in {"report", "done"} => source_stats <= SumLen(string_list, SelectSeq(files, LAMBDA f : f \in Parsed), SourceKey)

C9_Witness ==
    /\ pc = "done"
    /\ HasDiagnostic("source_error", "", FtlFile)
    /\ PropertiesFile \in DOMAIN string_list
    /\ source_stats > 0
    /\ "de" \in DOMAIN output

\* C10: no step of the locale loop or of the aggregation changes the source
\* lists built by the source loop.
C10_InventoryReadOnly ==
    [][(pc \in {"locale", "aggregate", "report"}) => (SourceInventory' = SourceInventory)]_vars

====
